---------------------------- MODULE Spec2Model ----------------------------
(***************************************************************************)
(* A model of wcwidth/wcwidth.py: the interval search _bisearch, the       *)
(* version functions _wcversion_value and _wcmatch_version, the width      *)
(* classifier wcwidth and the string accumulator wcswidth.                 *)
(*                                                                         *)
(* A Python str is a sequence of code points (ord of each character), a    *)
(* Python tuple of ints a sequence of integers, and an interval table a    *)
(* sequence of <<start, end>> pairs.  Python indexes from 0 and TLA+ from  *)
(* 1: s[i] of the source is s[i + 1] here.  A call either returns a value  *)
(* or raises; both outcomes are values of the model (Return, Raise).       *)
(*                                                                         *)
(* The functools.lru_cache decorators are memoisation of functions whose   *)
(* result depends only on their arguments and on os.environ; the           *)
(* environment is fixed when the process starts (variable environ never    *)
(* changes), so the caches are transparent and are not modelled.           *)
(***************************************************************************)
EXTENDS Integers, Sequences, FiniteSets, TLC

VARIABLES
    environ,    \* os.environ's UNICODE_VERSION: [set |-> BOOLEAN, value |-> str]
    fn,         \* the function the caller is in, "idle" between calls
    args,       \* the arguments of that call
    ret,        \* its outcome: Return(v) or Raise(e)
    consulted,  \* wcwidth: the key of ZERO_WIDTH/WIDE_EASTASIAN it looked up
    steps       \* _bisearch: iterations of its while loop

vars == <<environ, fn, args, ret, consulted, steps>>

----------------------------------------------------------------------------
(* Bounds of the model *)

\* _bisearch is exercised on code points 0 .. MaxOrd + 1
MaxOrd == 6
\* ... and on tables of at most MaxTableLen intervals
MaxTableLen == 3
\* version tokens: every string over TokenAlphabet of at most this length
MaxTokenLen == 4
\* wcswidth: strings of at most MaxStrLen characters over TextChars
MaxStrLen == 3
\* wcswidth: the limit n ranges over -1 .. MaxLimit (and None)
MaxLimit == 4

----------------------------------------------------------------------------
(* Outcomes of a call *)

Return(v) == [kind |-> "return", val |-> v]
Raise(e) == [kind |-> "raise", exc |-> e]
NoRet == [kind |-> "none"]

Returned(r, v) == r.kind = "return" /\ r.val = v

----------------------------------------------------------------------------
(* Python strings *)

ord ==
    ("." :> 46) @@ ("-" :> 45) @@
    ("0" :> 48) @@ ("1" :> 49) @@ ("2" :> 50) @@ ("3" :> 51) @@ ("4" :> 52) @@
    ("5" :> 53) @@ ("6" :> 54) @@ ("7" :> 55) @@ ("8" :> 56) @@ ("9" :> 57) @@
    ("a" :> 97) @@ ("e" :> 101) @@ ("l" :> 108) @@ ("o" :> 111) @@
    ("s" :> 115) @@ ("t" :> 116) @@ ("u" :> 117) @@ ("x" :> 120)

\* the str whose characters are cs, as its code points
Str(cs) == [i \in 1..Len(cs) |-> ord[cs[i]]]

AUTO == Str(<<"a", "u", "t", "o">>)
LATEST == Str(<<"l", "a", "t", "e", "s", "t">>)

\* x < y for two Python sequences (str against str, tuple against tuple):
\* the first differing element decides, a proper prefix is smaller
RECURSIVE py_seq_lt(_, _)
py_seq_lt(x, y) ==
    IF Len(x) = 0 THEN Len(y) > 0
    ELSE IF Len(y) = 0 THEN FALSE
    ELSE IF x[1] # y[1] THEN x[1] < y[1]
    ELSE py_seq_lt(SubSeq(x, 2, Len(x)), SubSeq(y, 2, Len(y)))

py_seq_le(x, y) == x = y \/ py_seq_lt(x, y)

\* max() of a non-empty collection of sequences
py_max(S) == CHOOSE m \in S : \A x \in S : py_seq_le(x, m)

\* str.split(sep)
RECURSIVE str_split(_, _)
str_split(s, sep) ==
    IF \E i \in 1..Len(s) : s[i] = sep
    THEN LET i == CHOOSE k \in 1..Len(s) :
                      s[k] = sep /\ \A j \in 1..(k - 1) : s[j] # sep
         IN  <<SubSeq(s, 1, i - 1)>> \o str_split(SubSeq(s, i + 1, Len(s)), sep)
    ELSE <<s>>

\* int(s) of a str over digits, sign characters and other characters: an
\* optional sign followed by one or more digits, anything else is ValueError
IsDigit(c) == 48 <= c /\ c <= 57

RECURSIVE digits_value(_)
digits_value(s) ==
    IF Len(s) = 0 THEN 0
    ELSE 10 * digits_value(SubSeq(s, 1, Len(s) - 1)) + (s[Len(s)] - 48)

int(s) ==
    LET signed == Len(s) > 0 /\ s[1] = 45
        body == IF signed THEN SubSeq(s, 2, Len(s)) ELSE s
    IN  IF Len(body) > 0 /\ \A i \in 1..Len(body) : IsDigit(body[i])
        THEN Return(IF signed THEN 0 - digits_value(body) ELSE digits_value(body))
        ELSE Raise("ValueError")

----------------------------------------------------------------------------
(* _bisearch *)

\* the while loop of _bisearch, from the bounds (lbound, ubound) on, having
\* run iters iterations: the value returned and the iterations run
RECURSIVE _bisearch_loop_excl_end(_, _, _, _, _)
_bisearch_loop_excl_end(ucs, table, lbound, ubound, iters) ==
    IF ubound >= lbound
    THEN LET mid == (lbound + ubound) \div 2
         IN  IF ucs >= table[mid + 1][2]
             THEN _bisearch_loop_excl_end(ucs, table, mid + 1, ubound, iters + 1)
             ELSE IF ucs < table[mid + 1][1]
             THEN _bisearch_loop_excl_end(ucs, table, lbound, mid - 1, iters + 1)
             ELSE [val |-> 1, iters |-> iters + 1]
    ELSE [val |-> 0, iters |-> iters]

RECURSIVE _bisearch_loop(_, _, _, _, _)
_bisearch_loop(ucs, table, lbound, ubound, iters) ==
    IF ubound >= lbound
    THEN LET mid == (lbound + ubound) \div 2
         IN  IF ucs > table[mid + 1][2]
             THEN _bisearch_loop(ucs, table, mid + 1, ubound, iters + 1)
             ELSE IF ucs < table[mid + 1][1]
             THEN _bisearch_loop(ucs, table, lbound, mid - 1, iters + 1)
             ELSE [val |-> 1, iters |-> iters + 1]
    ELSE [val |-> 0, iters |-> iters]

_bisearch_run(ucs, table) ==
    IF Len(table) = 0 \/ ucs < table[1][1] \/ ucs > table[Len(table)][2]
    THEN [val |-> 0, iters |-> 0]
    ELSE _bisearch_loop(ucs, table, 0, Len(table) - 1, 0)

_bisearch(ucs, table) == _bisearch_run(ucs, table).val

\* every sorted table of disjoint intervals with at most k intervals, all of
\* them inside lo .. MaxOrd
RECURSIVE SortedTablesFrom(_, _)
SortedTablesFrom(k, lo) ==
    IF k = 0 THEN {<<>>}
    ELSE {<<>>} \cup
         UNION { UNION { { <<(<<s, e>>)>> \o t : t \in SortedTablesFrom(k - 1, e + 1) }
                         : e \in s..MaxOrd }
                 : s \in lo..MaxOrd }

SortedTables == SortedTablesFrom(MaxTableLen, 0)

----------------------------------------------------------------------------
(* The table data: unicode_versions.list_versions, table_zero.ZERO_WIDTH,  *)
(* table_wide.WIDE_EASTASIAN and table_vs16.VS16_NARROW_TO_WIDE            *)

\* str(n) of a natural number
RECURSIVE Dec(_)
Dec(n) == IF n < 10 THEN <<48 + n>> ELSE Dec(n \div 10) \o <<48 + (n % 10)>>

\* the version string "a.b.c"
Ver(a, b, c) == Dec(a) \o <<46>> \o Dec(b) \o <<46>> \o Dec(c)

\* list_versions(): the supported versions, ascending
list_versions ==
    << Ver(4, 1, 0), Ver(5, 0, 0), Ver(5, 1, 0), Ver(5, 2, 0), Ver(6, 0, 0),
       Ver(6, 1, 0), Ver(6, 2, 0), Ver(6, 3, 0), Ver(7, 0, 0), Ver(8, 0, 0),
       Ver(9, 0, 0), Ver(10, 0, 0), Ver(11, 0, 0), Ver(12, 0, 0), Ver(12, 1, 0),
       Ver(13, 0, 0), Ver(14, 0, 0), Ver(15, 0, 0), Ver(15, 1, 0) >>

Supported == { list_versions[i] : i \in 1..Len(list_versions) }

VersionIndex(v) == CHOOSE i \in 1..Len(list_versions) : list_versions[i] = v

\* ZERO_WIDTH.keys(): every supported version has a zero-width table
ZERO_WIDTH_keys == Supported

\* ZERO_WIDTH[version]: combining marks; from 9.0.0 on also the zero-width
\* format characters (ZWJ among them) and the emoji modifiers
ZERO_WIDTH(version) ==
    IF VersionIndex(version) >= VersionIndex(Ver(9, 0, 0))
    THEN << <<\H0300, \H036F>>, <<\H200B, \H200F>>, <<\H1F3FB, \H1F3FF>> >>
    ELSE << <<\H0300, \H036F>> >>

\* WIDE_EASTASIAN[version]: Hangul Jamo and the CJK ideographs; from 9.0.0
\* on also the emoji of the Miscellaneous Symbols block that became wide
WIDE_EASTASIAN(version) ==
    IF VersionIndex(version) >= VersionIndex(Ver(9, 0, 0))
    THEN << <<\H1100, \H115F>>, <<\H231A, \H231B>>, <<\H4E00, \H9FFF>> >>
    ELSE << <<\H1100, \H115F>>, <<\H4E00, \H9FFF>> >>

\* the code points that are keys of VS16_NARROW_TO_WIDE
VS16_NARROW_TO_WIDE == {\H0023, \H002A, \H00A9}

----------------------------------------------------------------------------
(* _wcversion_value and _wcmatch_version *)

\* tuple(map(int, ver_string.split("."))): the first component int rejects
\* raises ValueError
_wcversion_value(ver_string) ==
    LET parts == str_split(ver_string, 46)
    IN  IF \E i \in 1..Len(parts) : int(parts[i]).kind = "raise"
        THEN Raise("ValueError")
        ELSE Return([i \in 1..Len(parts) |-> int(parts[i]).val])

\* os.environ.get("UNICODE_VERSION", "latest")
environ_get(env, default) == IF env.set THEN env.value ELSE default

\* the for loop over reversed(supported_versions) and the fall-through
\* after it: the last version whose value is <= given_value, else the first
scan_versions(supported_versions, given_value) ==
    LET fits == { i \in 1..Len(supported_versions) :
                     py_seq_le(_wcversion_value(supported_versions[i]).val,
                               given_value) }
    IN  IF fits # {}
        THEN supported_versions[CHOOSE i \in fits : \A k \in fits : k <= i]
        ELSE supported_versions[1]

\* _wcmatch_version without its except clause: the ValueError escapes
_wcmatch_version_no_except(given_version, env) ==
    LET given == IF given_version = AUTO THEN environ_get(env, LATEST)
                 ELSE given_version
        supported_versions == list_versions
        given_value == _wcversion_value(given)
    IN  IF given = LATEST THEN Return(list_versions[Len(list_versions)])
        ELSE IF given_value.kind = "raise" THEN given_value
        ELSE Return(scan_versions(supported_versions, given_value.val))

_wcmatch_version(given_version, env) ==
    LET given == IF given_version = AUTO THEN environ_get(env, LATEST)
                 ELSE given_version
        supported_versions == list_versions
        given_value == _wcversion_value(given)
    IN  IF given = LATEST THEN Return(list_versions[Len(list_versions)])
        ELSE IF given_value.kind = "raise"
        THEN Return(supported_versions[Len(supported_versions)])
        ELSE Return(scan_versions(supported_versions, given_value.val))

----------------------------------------------------------------------------
(* wcwidth *)

ZWJ == \H200D
FEMALE_SIGN == \H2640
MALE_SIGN == \H2642

\* ucs < 32 or 0x07F <= ucs < 0x0A0, for ucs that is not 0
IsControl_excl_9F(ucs) == ucs < 32 \/ (\H7F <= ucs /\ ucs < \H9F)

IsControl(ucs) == ucs < 32 \/ (\H7F <= ucs /\ ucs < \HA0)

InEmojiBlock(ucs) == \H1F000 <= ucs /\ ucs <= \H1FFFF

InVariationSelectors(ucs) == \HFE00 <= ucs /\ ucs <= \HFE0F

\* the version whose tables wcwidth looks up: "auto" is the max() of the
\* keys, a key is itself, and any other token is the max() of the keys that
\* are <= it, all compared as str; max() of no key at all is a ValueError
wcwidth_unicode_version(unicode_version) ==
    LET version == IF unicode_version = AUTO THEN py_max(ZERO_WIDTH_keys)
                   ELSE unicode_version
        valid_versions == ZERO_WIDTH_keys
        lower == { v \in valid_versions : py_seq_le(v, version) }
    IN  IF version \in valid_versions THEN Return(version)
        ELSE IF lower = {} THEN Raise("ValueError")
        ELSE Return(py_max(lower))

\* the rules of wcwidth that read the tables of the resolved version
wcwidth_classify(ucs, version) ==
    IF _bisearch(ucs, ZERO_WIDTH(version)) = 1 THEN 0
    ELSE IF InEmojiBlock(ucs) THEN 2
    ELSE IF ucs = ZWJ THEN 0
    ELSE IF _bisearch(ucs, WIDE_EASTASIAN(version)) = 1 THEN 2
    ELSE IF InVariationSelectors(ucs) THEN 0
    ELSE IF ucs \in VS16_NARROW_TO_WIDE THEN 2
    ELSE IF ucs \in {FEMALE_SIGN, MALE_SIGN} /\ py_seq_le(Ver(9, 0, 0), version)
    THEN 2
    ELSE 1

\* a call of wcwidth: its outcome, and the table key it resolved (none when
\* it returned before resolving one)
wcwidth_run(wc, unicode_version) ==
    IF Len(wc) # 1 THEN [ret |-> Return(-1), consulted |-> [kind |-> "none"]]
    ELSE LET ucs == wc[1]
             version == wcwidth_unicode_version(unicode_version)
         IN  IF ucs = 0 THEN [ret |-> Return(0), consulted |-> [kind |-> "none"]]
             ELSE IF IsControl(ucs)
             THEN [ret |-> Return(-1), consulted |-> [kind |-> "none"]]
             ELSE IF version.kind = "raise"
             THEN [ret |-> version, consulted |-> version]
             ELSE [ret |-> Return(wcwidth_classify(ucs, version.val)),
                   consulted |-> version]

wcwidth(wc, unicode_version) == wcwidth_run(wc, unicode_version).ret

----------------------------------------------------------------------------
(* wcswidth *)

\* the argument n: None, or an int
None == [is_None |-> TRUE, val |-> 0]
Int_(k) == [is_None |-> FALSE, val |-> k]

IsContinuation(ucs) ==
    ucs = ZWJ \/ InEmojiBlock(ucs) \/ InVariationSelectors(ucs)

\* the inner while loop: the index j it stops at; pwcs[j] with j beyond the
\* end of the string is an IndexError
\* the variant that looks no further than the character after the emoji
wcswidth_lookahead_no_absorb(pwcs, n, j) == Return(j)

RECURSIVE wcswidth_lookahead(_, _, _)
wcswidth_lookahead(pwcs, n, j) ==
    IF j < n
    THEN IF j >= Len(pwcs) THEN Raise("IndexError")
         ELSE IF IsContinuation(pwcs[j + 1]) THEN wcswidth_lookahead(pwcs, n, j + 1)
         ELSE Return(j)
    ELSE Return(j)

\* the outer while loop, from index i with the running total width; the
\* variant that adds nothing for a character of negative width and goes on
RECURSIVE wcswidth_loop_skip_negative(_, _, _, _, _)
wcswidth_loop_skip_negative(pwcs, n, unicode_version, i, width) ==
    IF i < n
    THEN IF i >= Len(pwcs) THEN Raise("IndexError")
         ELSE LET char == pwcs[i + 1]
                  char_width == wcwidth(<<char>>, unicode_version)
                  j == wcswidth_lookahead(pwcs, n, i + 1)
              IN  IF char_width.kind = "raise" THEN char_width
                  ELSE IF InEmojiBlock(char)
                  THEN IF j.kind = "raise" THEN j
                       ELSE wcswidth_loop_skip_negative(pwcs, n, unicode_version,
                                                        j.val, width + 2)
                  ELSE IF char_width.val < 0
                  THEN wcswidth_loop_skip_negative(pwcs, n, unicode_version,
                                                   i + 1, width)
                  ELSE wcswidth_loop_skip_negative(pwcs, n, unicode_version, i + 1,
                                                   width + char_width.val)
    ELSE Return(width)

RECURSIVE wcswidth_loop(_, _, _, _, _)
wcswidth_loop(pwcs, n, unicode_version, i, width) ==
    IF i < n
    THEN IF i >= Len(pwcs) THEN Raise("IndexError")
         ELSE LET char == pwcs[i + 1]
                  char_width == wcwidth(<<char>>, unicode_version)
                  j == wcswidth_lookahead(pwcs, n, i + 1)
              IN  IF char_width.kind = "raise" THEN char_width
                  ELSE IF InEmojiBlock(char)
                  THEN IF j.kind = "raise" THEN j
                       ELSE wcswidth_loop(pwcs, n, unicode_version, j.val, width + 2)
                  ELSE IF char_width.val < 0 THEN Return(-1)
                  ELSE wcswidth_loop(pwcs, n, unicode_version, i + 1,
                                     width + char_width.val)
    ELSE Return(width)

wcswidth(pwcs, n, unicode_version) ==
    wcswidth_loop(pwcs, IF n.is_None THEN Len(pwcs) ELSE n.val,
                  unicode_version, 0, 0)

----------------------------------------------------------------------------
(* Version tokens *)

\* the characters the generated tokens are made of: "0", "8", "." and "x"
TokenAlphabet == {48, 56, 46, 120}

RECURSIVE StringsOver(_, _)
StringsOver(alphabet, len) ==
    IF len = 0 THEN {<<>>}
    ELSE LET shorter == StringsOver(alphabet, len - 1)
         IN  shorter \cup { s \o <<c>> : s \in shorter, c \in alphabet }

NamedTokens ==
    { AUTO, LATEST, Dec(1), Str(<<"-", "1">>), Str(<<"9", ".", "x">>),
      Ver(4, 1, 0), Ver(4, 9, 9), Ver(8, 0, 0), Ver(9, 0, 0), Ver(10, 0, 0),
      Ver(15, 1, 0), Ver(16, 0, 0) }

Tokens == NamedTokens \cup StringsOver(TokenAlphabet, MaxTokenLen)

----------------------------------------------------------------------------
(* State machine: a caller that makes one call after another *)

NoEnv == [set |-> FALSE, value |-> <<>>]
NoArgs == [none |-> TRUE]
NotConsulted == [kind |-> "none"]

Env(value) == [set |-> TRUE, value |-> value]

\* UNICODE_VERSION unset, or set to a supported version, to an unsupported
\* one, to a malformed one, to "latest", to "auto"
EnvValues ==
    { NoEnv, Env(Ver(5, 0, 0)), Env(Str(<<"8", ".", "0">>)),
      Env(Str(<<"9", ".", "x">>)), Env(LATEST), Env(AUTO) }

Init ==
    /\ environ \in EnvValues
    /\ fn = "idle"
    /\ args = NoArgs
    /\ ret = NoRet
    /\ consulted = NotConsulted
    /\ steps = 0

Call_bisearch ==
    /\ fn = "idle"
    /\ \E table \in SortedTables, ucs \in 0..(MaxOrd + 1) :
          /\ fn' = "_bisearch"
          /\ args' = [ucs |-> ucs, table |-> table]
          /\ ret' = Return(_bisearch(ucs, table))
          /\ steps' = _bisearch_run(ucs, table).iters
    /\ UNCHANGED <<environ, consulted>>

\* the caller takes the outcome and is ready for its next call
Done ==
    /\ fn # "idle"
    /\ fn' = "idle"
    /\ args' = NoArgs
    /\ ret' = NoRet
    /\ consulted' = NotConsulted
    /\ steps' = 0
    /\ UNCHANGED environ

Call_wcversion_value ==
    /\ fn = "idle"
    /\ \E ver_string \in Tokens :
          /\ fn' = "_wcversion_value"
          /\ args' = [ver_string |-> ver_string]
          /\ ret' = _wcversion_value(ver_string)
    /\ UNCHANGED <<environ, consulted, steps>>

Call_wcmatch_version ==
    /\ fn = "idle"
    /\ \E given_version \in Tokens :
          /\ fn' = "_wcmatch_version"
          /\ args' = [given_version |-> given_version]
          /\ ret' = _wcmatch_version(given_version, environ)
    /\ UNCHANGED <<environ, consulted, steps>>

\* the code points wcwidth is called on: both sides of every boundary its
\* rules and the tables draw
CodePoints ==
    { 0, 1, 31, 32, \H23, \H41, \H7E, \H7F, \H9F, \HA0, \H0300, \H200B,
      \H200D, \H231A, \H2640, \H2641, \H2642, \H4E00, \HFE00, \HFE0F, \HFE10,
      \H1EFFF, \H1F000, \H1F3FB, \H1F600, \H1FFFF, \H20000 }

\* the str arguments of wcwidth: one character, none, or two
WcArgs == { <<c>> : c \in CodePoints } \cup { <<>>, <<\H41, \H41>> }

Call_wcwidth ==
    /\ fn = "idle"
    /\ \E wc \in WcArgs, unicode_version \in Tokens :
          /\ fn' = "wcwidth"
          /\ args' = [wc |-> wc, unicode_version |-> unicode_version]
          /\ ret' = wcwidth(wc, unicode_version)
          /\ consulted' = wcwidth_run(wc, unicode_version).consulted
    /\ UNCHANGED <<environ, steps>>

\* the characters of the strings wcswidth is called on: a control character,
\* NUL, a narrow letter, a wide ideograph, ZWJ, VS16, an emoji
TextChars == { 1, 0, \H41, \H4E00, \H200D, \HFE0F, \H1F600 }

Texts == StringsOver(TextChars, MaxStrLen)

Limits == { None } \cup { Int_(k) : k \in (-1)..MaxLimit }

\* the version tokens wcswidth is called with: the default, a supported
\* version below 9.0.0, one from 9.0.0 on, and one below every supported one
TextTokens == { AUTO, Ver(4, 1, 0), Ver(10, 0, 0), Dec(1) }

Call_wcswidth ==
    /\ fn = "idle"
    /\ \E pwcs \in Texts, n \in Limits, unicode_version \in TextTokens :
          /\ fn' = "wcswidth"
          /\ args' = [pwcs |-> pwcs, n |-> n, unicode_version |-> unicode_version]
          /\ ret' = wcswidth(pwcs, n, unicode_version)
    /\ UNCHANGED <<environ, consulted, steps>>

\* a process started with UNICODE_VERSION unset
InitNoEnv == Init /\ environ = NoEnv

NextBisearch == Call_bisearch \/ Done

NextVersion == Call_wcversion_value \/ Call_wcmatch_version \/ Done

VersionSpec == Init /\ [][NextVersion]_vars

NextWidth == Call_wcwidth \/ Done

WidthSpec == Init /\ [][NextWidth]_vars

NextString == Call_wcswidth \/ Done

StringSpec == InitNoEnv /\ [][NextString]_vars

Next ==
    \/ Call_bisearch
    \/ Call_wcversion_value
    \/ Call_wcmatch_version
    \/ Call_wcwidth
    \/ Call_wcswidth
    \/ Done

Spec == Init /\ [][Next]_vars

BisearchSpec == InitNoEnv /\ [][NextBisearch]_vars

----------------------------------------------------------------------------
(* Claims about _bisearch *)

InTable(ucs, table) ==
    \E k \in 1..Len(table) : table[k][1] <= ucs /\ ucs <= table[k][2]

\* C10: on every sorted, disjoint table (the empty one too) and every code
\* point, _bisearch terminates, within as many iterations as the table has
\* intervals, and returns 1 exactly when the code point lies inside some
\* interval [start, end], else 0; so both endpoints of every interval give 1
\* and start - 1 and end + 1 give 0 when no other interval holds them.
C10_BisearchIsMembership ==
    fn = "_bisearch" =>
        /\ ret.kind = "return"
        /\ ret.val = (IF InTable(args.ucs, args.table) THEN 1 ELSE 0)
        /\ steps <= Len(args.table)
        /\ \A k \in 1..Len(args.table) :
              /\ args.ucs \in {args.table[k][1], args.table[k][2]} => ret.val = 1
              /\ ( /\ args.ucs \in {args.table[k][1] - 1, args.table[k][2] + 1}
                   /\ ~InTable(args.ucs, args.table) ) => ret.val = 0

\* a code point in the gap after the end of the first of several intervals
C10_Witness ==
    /\ fn = "_bisearch"
    /\ Len(args.table) >= 2
    /\ args.ucs = args.table[1][2] + 1
    /\ args.ucs < args.table[2][1]
    /\ steps >= 2
    /\ Returned(ret, 0)

----------------------------------------------------------------------------
(* Versions as the specification orders them: dotted-integer tuples,       *)
(* compared component by component, a missing trailing component being 0   *)

Max(a, b) == IF a >= b THEN a ELSE b
Min(a, b) == IF a <= b THEN a ELSE b

Padded(t, len) == [i \in 1..len |-> IF i <= Len(t) THEN t[i] ELSE 0]

NumericLE(a, b) ==
    LET len == Max(Len(a), Len(b))
    IN  py_seq_le(Padded(a, len), Padded(b, len))

VersionValue(v) == _wcversion_value(v).val

MaxSupported ==
    CHOOSE m \in Supported :
        \A v \in Supported : NumericLE(VersionValue(v), VersionValue(m))

MinSupported ==
    CHOOSE m \in Supported :
        \A v \in Supported : NumericLE(VersionValue(m), VersionValue(v))

\* the greatest supported version at or below the value, the lowest
\* supported version when there is none
NearestSupported(value) ==
    LET below == { v \in Supported : NumericLE(VersionValue(v), value) }
    IN  IF below = {} THEN MinSupported
        ELSE CHOOSE m \in below :
                 \A v \in below : NumericLE(VersionValue(v), VersionValue(m))

Parseable(token) ==
    token \notin {AUTO, LATEST} /\ _wcversion_value(token).kind = "return"

HasNonNumericComponent(token) ==
    LET parts == str_split(token, 46)
    IN  \E i \in 1..Len(parts) : int(parts[i]).kind = "raise"

----------------------------------------------------------------------------
(* Claims about _wcmatch_version *)

\* C3: for a parseable token _wcmatch_version returns the greatest supported
\* version that is <= the token, versions compared as dotted-integer tuples
\* with missing trailing components read as 0 ("8.0" gives "8.0.0", "4.9.9"
\* gives "4.1.0"), and the lowest supported version when the token is below
\* every supported version.
C3_NearestAtOrBelow ==
    (fn = "_wcmatch_version" /\ Parseable(args.given_version)) =>
        Returned(ret, NearestSupported(VersionValue(args.given_version)))

\* C4: _wcmatch_version never raises and always returns a supported version,
\* whatever the token and whatever UNICODE_VERSION holds; "latest", and
\* "auto" with UNICODE_VERSION unset, give the last (maximum) supported
\* version, and so does a token with a non-numeric component.
C4_AlwaysSupported ==
    fn = "_wcmatch_version" =>
        /\ ret.kind = "return"
        /\ ret.val \in Supported
        /\ ( \/ args.given_version = LATEST
             \/ (args.given_version = AUTO /\ ~environ.set) ) =>
               (ret.val = list_versions[Len(list_versions)] /\ ret.val = MaxSupported)
        /\ ( /\ args.given_version \notin {AUTO, LATEST}
             /\ HasNonNumericComponent(args.given_version) ) =>
               ret.val = list_versions[Len(list_versions)]

\* "auto" resolved through a malformed UNICODE_VERSION falls back to the
\* latest version
C4_Witness ==
    /\ fn = "_wcmatch_version"
    /\ args.given_version = AUTO
    /\ environ.set
    /\ HasNonNumericComponent(environ.value)
    /\ Returned(ret, Ver(15, 1, 0))

----------------------------------------------------------------------------
(* Claims about wcwidth *)

\* C1: wcwidth is total: for every single code point and every version
\* token it raises nothing and returns one of -1, 0, 1, 2.
C1_WcwidthTotal ==
    (fn = "wcwidth" /\ Len(args.wc) = 1) =>
        (ret.kind = "return" /\ ret.val \in {-1, 0, 1, 2})

\* C2: the table snapshot wcwidth consults is the version _wcmatch_version
\* returns for the token: the maximum supported version (numerically) for
\* "auto" and "latest", else the nearest supported version at or below the
\* token in the same numeric order.
C2_ConsultsResolvedVersion ==
    (fn = "wcwidth" /\ consulted.kind = "return") =>
        /\ consulted.val = _wcmatch_version(args.unicode_version, environ).val
        /\ ( /\ args.unicode_version \in {AUTO, LATEST}
             /\ ~environ.set ) => consulted.val = MaxSupported
        /\ Parseable(args.unicode_version) =>
               consulted.val = NearestSupported(VersionValue(args.unicode_version))

\* C5: whatever the version token, wcwidth returns 0 for code point 0 and -1
\* for every code point in [1, 31] or [0x7F, 0x9F], and not for 0xA0; both
\* rules are decided before any version is resolved or table looked up.
C5_NulAndControls ==
    (fn = "wcwidth" /\ Len(args.wc) = 1) =>
        /\ args.wc[1] = 0 => (Returned(ret, 0) /\ consulted.kind = "none")
        /\ args.wc[1] \in (1..31) \cup (\H7F..\H9F) =>
               (Returned(ret, -1) /\ consulted.kind = "none")
        /\ args.wc[1] = \HA0 => ~Returned(ret, -1)

\* the last C1 control character, with a token no table key is <=
C5_Witness ==
    /\ fn = "wcwidth"
    /\ args.wc = <<\H9F>>
    /\ wcwidth_unicode_version(args.unicode_version).kind = "raise"
    /\ Returned(ret, -1)

NoEarlierRule(ucs, version) ==
    /\ ~InTable(ucs, ZERO_WIDTH(version))
    /\ ~InTable(ucs, WIDE_EASTASIAN(version))
    /\ ucs \notin VS16_NARROW_TO_WIDE

\* C6: for the gender signs 0x2640 and 0x2642, when no earlier rule matches,
\* wcwidth returns 2 exactly when the resolved version is >= 9.0.0 as a
\* dotted-integer tuple (so for 10.0.0 and every later version too), and 1
\* for a resolved version below 9.0.0.
C6_GenderSigns ==
    ( /\ fn = "wcwidth"
      /\ Len(args.wc) = 1
      /\ args.wc[1] \in {FEMALE_SIGN, MALE_SIGN}
      /\ consulted.kind = "return"
      /\ NoEarlierRule(args.wc[1], consulted.val) ) =>
        Returned(ret, IF NumericLE(<<9, 0, 0>>, VersionValue(consulted.val))
                      THEN 2 ELSE 1)

----------------------------------------------------------------------------
(* Claims about wcswidth *)

\* the call leaves unicode_version at its default or names a supported
\* version
DefaultOrSupported(unicode_version) ==
    unicode_version = AUTO \/ unicode_version \in Supported

\* the number of characters of pwcs inside the measured prefix
MeasuredLen(pwcs, n) ==
    IF n.is_None THEN Len(pwcs) ELSE Min(Max(n.val, 0), Len(pwcs))

\* pwcs[:k], for k >= 0
Prefix(pwcs, k) == SubSeq(pwcs, 1, Min(k, Len(pwcs)))

\* C7: if the measured prefix holds at some position a character whose
\* wcwidth is -1, wcswidth returns -1 for the whole query, whatever comes
\* before or after that position; and whatever the version token, such a
\* query never returns a partial sum.
C7_ShortCircuit ==
    ( /\ fn = "wcswidth"
      /\ \E i \in 1..MeasuredLen(args.pwcs, args.n) :
            Returned(wcwidth(<<args.pwcs[i]>>, args.unicode_version), -1) ) =>
        /\ DefaultOrSupported(args.unicode_version) => Returned(ret, -1)
        /\ ret.kind = "return" => ret.val = -1

\* a control character after an emoji and before a letter
C7_Witness ==
    /\ fn = "wcswidth"
    /\ args.unicode_version = AUTO
    /\ args.n = None
    /\ Len(args.pwcs) = 3
    /\ InEmojiBlock(args.pwcs[1])
    /\ IsControl(args.pwcs[2]) /\ args.pwcs[2] # 0
    /\ args.pwcs[3] = \H41
    /\ Returned(ret, -1)

NoNegativeWidth(pwcs, unicode_version) ==
    \A i \in 1..Len(pwcs) : ~Returned(wcwidth(<<pwcs[i]>>, unicode_version), -1)

\* position i lies in a run that starts at an emoji-block character and
\* continues over ZWJ, emoji-block and variation-selector characters
InsideCluster(pwcs, i) ==
    \E p \in 1..i :
        /\ InEmojiBlock(pwcs[p])
        /\ \A q \in (p + 1)..i : IsContinuation(pwcs[q])

\* the first positions of the maximal runs
ClusterStarts(pwcs) ==
    { p \in 1..Len(pwcs) :
        InEmojiBlock(pwcs[p]) /\ (p = 1 \/ ~InsideCluster(pwcs, p - 1)) }

RECURSIVE OutsideWidth(_, _, _)
OutsideWidth(pwcs, unicode_version, i) ==
    IF i = 0 THEN 0
    ELSE OutsideWidth(pwcs, unicode_version, i - 1)
         + (IF InsideCluster(pwcs, i) THEN 0
            ELSE wcwidth(<<pwcs[i]>>, unicode_version).val)

ClusteredWidth(pwcs, unicode_version) ==
    2 * Cardinality(ClusterStarts(pwcs))
    + OutsideWidth(pwcs, unicode_version, Len(pwcs))

\* the width of the whole string is 2 per cluster plus the widths of the
\* characters outside clusters
WholeStringIsClusteredWidth ==
    args.n.is_None =>
        Returned(ret, ClusteredWidth(args.pwcs, args.unicode_version))

\* a limit n from 1 to the length of the string gives a width, and one no
\* smaller than the limit n - 1 gives
LimitStepIsMonotonic ==
    (~args.n.is_None /\ 1 <= args.n.val /\ args.n.val <= Len(args.pwcs)) =>
        /\ ret.kind = "return"
        /\ wcswidth(args.pwcs, Int_(args.n.val - 1), args.unicode_version).val
              <= ret.val

\* C8: for a string with no character of width -1, wcswidth is 2 times the
\* number of emoji clusters plus the sum of wcwidth over the characters
\* outside clusters (so [emoji, ZWJ, emoji] has width 2, not 4), and the
\* result is non-decreasing as the limit grows up to the length of the string.
C8_ClusterCollapsing ==
    ( /\ fn = "wcswidth"
      /\ DefaultOrSupported(args.unicode_version)
      /\ NoNegativeWidth(args.pwcs, args.unicode_version) ) =>
        (WholeStringIsClusteredWidth /\ LimitStepIsMonotonic)

\* [emoji, ZWJ, emoji] measured whole
C8_Witness ==
    /\ fn = "wcswidth"
    /\ args.unicode_version = AUTO
    /\ args.n = None
    /\ args.pwcs = <<\H1F600, ZWJ, \H1F600>>
    /\ Returned(ret, 2)

\* C9: the limit n only bounds the measured prefix: for every string s and
\* every n >= 0, n greater than len(s) and the empty s included,
\* wcswidth(s, n) raises nothing and returns what wcswidth(s[:n]) returns;
\* an empty string or n = 0 gives 0.
C9_LimitIsSlice ==
    ( /\ fn = "wcswidth"
      /\ DefaultOrSupported(args.unicode_version)
      /\ ~args.n.is_None
      /\ args.n.val >= 0 ) =>
        /\ ret.kind = "return"
        /\ ret.val = wcswidth(Prefix(args.pwcs, args.n.val), None,
                              args.unicode_version).val
        /\ (Len(args.pwcs) = 0 \/ args.n.val = 0) => ret.val = 0

=============================================================================
